---- MODULE Spec2Model ----
(***************************************************************************)
(* A model of ORUtils::Image<T> (InfiniTAM/ORUtils/Image.h): an image      *)
(* buffer that owns a block of host memory and, when allocateGPU is set    *)
(* and the build has CUDA, a block of device memory.                       *)
(*                                                                         *)
(* The heap is a map from block ids to blocks.  A block id stands for one  *)
(* allocation: ids are never reused, so "the same block" and "a new        *)
(* block" are comparisons of ids.  Memory is modelled byte by byte.        *)
(***************************************************************************)
EXTENDS Integers, Sequences, FiniteSets

\* ---------------------------------------------------------------- bounds
\* Largest number of pixels of an image a caller asks for.
MaxElems == 2
\* Bytes range over 0..MaxByte.
MaxByte == 1
\* Calls made in one run.
MaxCalls == 4

\* sizeof(T) for the pixel type T the template is instantiated with.
SizeofT == 1
\* The Image objects of the run.  Every operation is called on the first; the
\* second is constructed with a size and written by its owner before the
\* first is constructed, and is handed to SetFrom as the source.
NumImages == 2
Subject == 1

Images == 1..NumImages
Byte == 0..MaxByte
\* The extents a caller passes: 0x0 and every w x h of at most MaxElems pixels.
Dims == {<<0, 0>>} \cup {d \in (1..MaxElems) \X (1..MaxElems) : d[1] * d[2] <= MaxElems}
\* One id per allocation: a call allocates at most two blocks.
BlockIds == 1..(2 * MaxCalls)
\* The value of a byte that no store has set since its block was allocated.
\* The code never branches on a byte, it only stores and copies them, so one
\* value stands for every value such a byte may have.
Indet == -1
\* The value of a pointer member that was never assigned.
NoBlock == 0
\* Values an int member that was never assigned may hold.
IndetInt == 0..MaxElems

VARIABLES
    cuda,      \* TRUE iff the build is made without COMPILE_WITHOUT_CUDA
    img,       \* the members of each Image object
    heap,      \* the blocks of host and device memory
    aborted,   \* the process has been terminated
    last,      \* the call made last: its arguments, the object before it, its events
    held,      \* per image: the host bytes last transferred to a device block still unwritten
    calls      \* the number of calls made

vars == <<cuda, img, heap, aborted, last, held, calls>>

\* ------------------------------------------------------------ the machine
\* The operations are functions from a machine state m to the set of machine
\* states they can end in: m.img the objects, m.heap the memory, m.ab whether
\* control has left the call (the process was terminated or an exception is
\* on its way to the caller), m.ex whether an exception was thrown, m.ev the
\* memory primitives called so far, m.fl the assignments to isAllocated made
\* so far, each with the number of primitives called before it.

NoImage ==
    [st |-> "none", allocateGPU |-> FALSE, isAllocated |-> FALSE,
     data_host |-> NoBlock, data_device |-> NoBlock,
     noDims |-> <<0, 0>>, dataSize |-> 0]

NoMem == [state |-> "unused", dom |-> "none", by |-> "none", data |-> <<>>, frees |-> 0]

Live(h, p) == p \in BlockIds /\ h[p].state = "live"

Min(a, b) == IF a <= b THEN a ELSE b

Event(e, dst, src, ok) == [e |-> e, dst |-> dst, src |-> src, ok |-> ok]

Log(m, e, dst, src, ok) == [m EXCEPT !.ev = Append(@, Event(e, dst, src, ok))]

\* ORcudaSafeCall(err): an error returned by a CUDA call ends the process.
ORcudaSafeCall(m, err) == IF err THEN [m EXCEPT !.ab = TRUE] ELSE m

\* A new-expression that cannot get its storage throws std::bad_alloc:
\* control leaves the operation, and every operation that called it.
Throw(m) == [m EXCEPT !.ab = TRUE, !.ex = TRUE]

\* An allocation of n bytes in domain dom by primitive e.  It succeeds with a
\* block never seen before, its bytes indeterminate, or it fails: new[]
\* throws, a CUDA allocation returns an error to ORcudaSafeCall.  The results
\* are pairs of machine state and pointer; there is none when every block id
\* is taken.
Malloc(m, e, dom, n) ==
    LET fresh  == {b \in BlockIds : m.heap[b].state = "unused"}
        failed == Log(m, e, NoBlock, NoBlock, FALSE)
    IN  IF fresh = {} THEN {}
        ELSE LET b == CHOOSE x \in fresh : \A y \in fresh : x <= y
             IN  {[m |-> ORcudaSafeCall(
                           Log([m EXCEPT !.heap[b] =
                                  [state |-> "live", dom |-> dom, by |-> e,
                                   data |-> c, frees |-> 0]],
                               e, b, NoBlock, TRUE), FALSE),
                   p |-> b] : c \in {[k \in 1..n |-> Indet]}}
                 \cup {[m |-> IF e = "new[]" THEN Throw(failed)
                                             ELSE ORcudaSafeCall(failed, TRUE),
                        p |-> NoBlock]}

\* A release of the block p points to by primitive e.  Releasing anything but
\* a live block is undefined: the process dies or carries on.
Release(m, e, p) ==
    IF m.ab THEN {m}
    ELSE IF Live(m.heap, p)
    THEN {Log([m EXCEPT !.heap[p].state = "freed", !.heap[p].data = <<>>,
                        !.heap[p].frees = @ + 1], e, p, NoBlock, TRUE)}
    ELSE LET m1 == Log(IF p \in BlockIds
                       THEN [m EXCEPT !.heap[p].frees = Min(@ + 1, 2)]
                       ELSE m, e, p, NoBlock, FALSE)
         IN  {[m1 EXCEPT !.ab = a] : a \in BOOLEAN}

\* memset / cudaMemset of n bytes at p.  Setting no byte touches no memory.
\* Otherwise a target that is no live block of at least n bytes is undefined:
\* the process dies or carries on.
Fill(m, e, p, v, n) ==
    IF m.ab THEN {m}
    ELSE IF n = 0 THEN {Log(m, e, p, NoBlock, TRUE)}
    ELSE IF Live(m.heap, p) /\ n <= Len(m.heap[p].data)
    THEN {Log([m EXCEPT !.heap[p].data =
                  [k \in 1..Len(@) |-> IF k <= n THEN v ELSE @[k]]],
              e, p, NoBlock, TRUE)}
    ELSE {[Log(m, e, p, NoBlock, FALSE) EXCEPT !.ab = a] : a \in BOOLEAN}

\* memcpy / cudaMemcpy of n bytes from src to dst.  Copying no byte touches
\* no memory.  Otherwise operands that are not live blocks of at least n
\* bytes are undefined: the process dies, or carries on with whatever bytes
\* landed in dst.
Copy(m, e, dst, src, n) ==
    IF m.ab THEN {m}
    ELSE IF n = 0 THEN {Log(m, e, dst, src, TRUE)}
    ELSE IF Live(m.heap, dst) /\ Live(m.heap, src)
            /\ n <= Len(m.heap[dst].data) /\ n <= Len(m.heap[src].data)
    THEN {Log([m EXCEPT !.heap[dst].data =
                  [k \in 1..Len(@) |-> IF k <= n THEN m.heap[src].data[k] ELSE @[k]]],
              e, dst, src, TRUE)}
    ELSE LET m1 == Log(m, e, dst, src, FALSE)
         IN  {[m1 EXCEPT !.ab = TRUE]}
             \cup (IF Live(m.heap, dst)
                   THEN LET w == Min(n, Len(m.heap[dst].data))
                        IN  {[m1 EXCEPT !.heap[dst].data =
                                [k \in 1..Len(@) |-> IF k <= w THEN c[k] ELSE @[k]]]
                             : c \in {[k \in 1..w |-> Indet]}}
                   ELSE {m1})

\* ------------------------------------------------------------ Image<T>

\* explicit Image(bool allocateGPU): dataSize and the pointers are not set.
Image1(m, i, gpu) ==
    {[m EXCEPT !.img[i] = [st |-> "alive", allocateGPU |-> gpu, isAllocated |-> FALSE,
                           data_host |-> NoBlock, data_device |-> NoBlock,
                           noDims |-> <<0, 0>>, dataSize |-> n]] : n \in IndetInt}

\* An assignment of v to isAllocated.
SetFlag(m, i, v) ==
    IF m.ab THEN m
    ELSE [m EXCEPT !.img[i].isAllocated = v,
                   !.fl = Append(@, [at |-> Len(m.ev), to |-> v])]

SetAllocated(m, i) == SetFlag(m, i, TRUE)

\* The body of Allocate's if with the outcome of its allocations ignored: a
\* failed allocation leaves a null pointer and control carries on.
AllocateBlocks_Unchecked(m, i, d) ==
    LET m1 == [m EXCEPT !.img[i].noDims = d, !.img[i].dataSize = d[1] * d[2]]
        n  == d[1] * d[2] * SizeofT
        on(r) == [r.m EXCEPT !.ab = FALSE, !.ex = FALSE]
    IN  IF m1.img[i].allocateGPU
        THEN IF cuda
             THEN UNION {
                    {[on(r) EXCEPT !.img[i].data_device = r.p]
                       : r \in Malloc([on(h) EXCEPT !.img[i].data_host = h.p],
                                      "cudaMalloc", "device", n)}
                    : h \in Malloc(m1, "cudaMallocHost", "host", n)}
             ELSE {m1}
        ELSE {[on(h) EXCEPT !.img[i].data_host = h.p]
                : h \in Malloc(m1, "new[]", "host", n)}

\* The body of Allocate's if: the extent, the pixel count and the blocks.
\* With allocateGPU set and no CUDA in the build it allocates nothing.
AllocateBlocks(m, i, d) ==
    LET m1 == [m EXCEPT !.img[i].noDims = d, !.img[i].dataSize = d[1] * d[2]]
        n  == d[1] * d[2] * SizeofT
    IN  IF m1.img[i].allocateGPU
        THEN IF cuda
             THEN UNION {
                    IF h.m.ab THEN {h.m}
                    ELSE {IF r.m.ab THEN r.m ELSE [r.m EXCEPT !.img[i].data_device = r.p]
                            : r \in Malloc([h.m EXCEPT !.img[i].data_host = h.p],
                                           "cudaMalloc", "device", n)}
                    : h \in Malloc(m1, "cudaMallocHost", "host", n)}
             ELSE {m1}
        ELSE {IF h.m.ab THEN h.m ELSE [h.m EXCEPT !.img[i].data_host = h.p]
                : h \in Malloc(m1, "new[]", "host", n)}

\* Allocate with its test of isAllocated dropped.
Allocate_Unguarded(m, i, d) ==
    IF m.ab THEN {m}
    ELSE {SetAllocated(x, i) : x \in AllocateBlocks(m, i, d)}

Allocate(m, i, d) ==
    IF m.ab THEN {m}
    ELSE IF ~m.img[i].isAllocated
    THEN {SetAllocated(x, i) : x \in AllocateBlocks(m, i, d)}
    ELSE {SetAllocated(m, i)}

Clear(m, i, defaultValue) ==
    LET n == m.img[i].dataSize * SizeofT
    IN  UNION {IF cuda /\ x.img[i].allocateGPU
               THEN Fill(x, "cudaMemset", x.img[i].data_device, defaultValue, n)
               ELSE {x}
               : x \in Fill(m, "memset", m.img[i].data_host, defaultValue, n)}

\* Image(Vector2i noDims, bool allocateGPU).  A constructor left by an
\* exception has constructed no object.
Image2(m, i, d, gpu) ==
    LET m0 == [m EXCEPT !.img[i] = [st |-> "alive", allocateGPU |-> gpu,
                                    isAllocated |-> FALSE,
                                    data_host |-> NoBlock, data_device |-> NoBlock,
                                    noDims |-> <<0, 0>>, dataSize |-> 0]]
    IN  {IF x.ex THEN [x EXCEPT !.img[i] = m.img[i]] ELSE x
           : x \in UNION {Clear(y, i, 0) : y \in Allocate(m0, i, d)}}

\* The body of Free's if with the release of the pinned host block left out.
FreeBlocks_LeaksHost(m, i) ==
    IF m.img[i].allocateGPU
    THEN IF cuda
         THEN Release(m, "cudaFree", m.img[i].data_device)
         ELSE {m}
    ELSE Release(m, "delete[]", m.img[i].data_host)

\* The body of Free's if: the blocks are released.  With allocateGPU set
\* and no CUDA in the build it releases nothing.
FreeBlocks(m, i) ==
    IF m.img[i].allocateGPU
    THEN IF cuda
         THEN UNION {Release(x, "cudaFreeHost", x.img[i].data_host)
                     : x \in Release(m, "cudaFree", m.img[i].data_device)}
         ELSE {m}
    ELSE Release(m, "delete[]", m.img[i].data_host)

\* Free with its test of isAllocated dropped.
Free_Unguarded(m, i) ==
    IF m.ab THEN {m}
    ELSE {SetFlag(x, i, FALSE) : x \in FreeBlocks(m, i)}

\* Free resetting allocateGPU along with isAllocated.
Free_ResetsGPU(m, i) ==
    IF m.ab THEN {m}
    ELSE LET done == IF m.img[i].isAllocated THEN FreeBlocks(m, i) ELSE {m}
         IN  {IF x.ab THEN x
              ELSE [SetFlag(x, i, FALSE) EXCEPT !.img[i].allocateGPU = FALSE]
                : x \in done}

Free(m, i) ==
    IF m.ab THEN {m}
    ELSE LET done == IF m.img[i].isAllocated THEN FreeBlocks(m, i) ELSE {m}
         IN  {SetFlag(x, i, FALSE) : x \in done}

\* ChangeDims allocating the new blocks without a call of Free.
ChangeDims_NoFree(m, i, newDims) ==
    IF (newDims # m.img[i].noDims) \/ ~m.img[i].isAllocated
    THEN Allocate_Unguarded(m, i, newDims)
    ELSE {m}

\* ChangeDims with its test dropped: it always frees and allocates.
ChangeDims_Always(m, i, newDims) ==
    UNION {Allocate(x, i, newDims) : x \in Free(m, i)}

ChangeDims(m, i, newDims) ==
    IF (newDims # m.img[i].noDims) \/ ~m.img[i].isAllocated
    THEN UNION {Allocate(x, i, newDims) : x \in Free(m, i)}
    ELSE {m}

UpdateDeviceFromHost(m, i) ==
    IF cuda /\ m.img[i].allocateGPU
    THEN Copy(m, "cudaMemcpy", m.img[i].data_device, m.img[i].data_host,
              m.img[i].dataSize * SizeofT)
    ELSE {m}

\* UpdateHostFromDevice with the operands of its cudaMemcpy exchanged.
UpdateHostFromDevice_Reversed(m, i) ==
    IF cuda /\ m.img[i].allocateGPU
    THEN Copy(m, "cudaMemcpy", m.img[i].data_device, m.img[i].data_host,
              m.img[i].dataSize * SizeofT)
    ELSE {m}

UpdateHostFromDevice(m, i) ==
    IF cuda /\ m.img[i].allocateGPU
    THEN Copy(m, "cudaMemcpy", m.img[i].data_host, m.img[i].data_device,
              m.img[i].dataSize * SizeofT)
    ELSE {m}

\* SetFrom taking on the source's extent before it copies.
SetFrom_Resizing(m, i, source, copyHost, copyDevice) ==
    LET n == m.img[source].dataSize * SizeofT
    IN  UNION {
          UNION {IF cuda /\ copyDevice
                 THEN Copy(x, "cudaMemcpy", x.img[i].data_device,
                           x.img[source].data_device, n)
                 ELSE {x}
                 : x \in IF copyHost
                         THEN Copy(y, "memcpy", y.img[i].data_host,
                                   y.img[source].data_host, n)
                         ELSE {y}}
          : y \in ChangeDims(m, i, m.img[source].noDims)}

SetFrom(m, i, source, copyHost, copyDevice) ==
    LET n == m.img[source].dataSize * SizeofT
        h == IF copyHost
             THEN Copy(m, "memcpy", m.img[i].data_host, m.img[source].data_host, n)
             ELSE {m}
    IN  UNION {IF cuda /\ copyDevice
               THEN Copy(x, "cudaMemcpy", x.img[i].data_device,
                         x.img[source].data_device, n)
               ELSE {x}
               : x \in h}

\* ~Image()
Destroy(m, i) ==
    {IF x.ab THEN x ELSE [x EXCEPT !.img[i].st = "dead"] : x \in Free(m, i)}

\* GetData(useGPU)
GetData(m, i, useGPU) == IF useGPU THEN m.img[i].data_device ELSE m.img[i].data_host

\* ------------------------------------------------------------ the calls

\* The machine state a call starts from.
M == [img |-> img, heap |-> heap, ab |-> FALSE, ex |-> FALSE, ev |-> <<>>, fl |-> <<>>]

NoArgs == [j |-> 0, d |-> <<0, 0>>, v |-> 0, copyHost |-> FALSE, copyDevice |-> FALSE]

Bytes(h, p) == IF Live(h, p) THEN h[p].data ELSE <<>>

\* What image k holds after the step: the host bytes of its last completed
\* UpdateDeviceFromHost, for as long as its device block keeps its bytes.
Held(op, i, x, k) ==
    LET dv == img[k].data_device
    IN  IF op = "UpdateDeviceFromHost" /\ k = i /\ ~x.ab /\ x.ev # <<>> /\ x.ev[1].ok
        THEN <<Bytes(heap, img[k].data_host)>>
        ELSE IF held[k] # <<>> /\ ~x.ab /\ x.img[k].st = "alive"
                /\ x.img[k].data_device = dv /\ Live(x.heap, dv)
                /\ x.heap[dv].data = heap[dv].data
        THEN held[k]
        ELSE <<>>

\* One call of operation op on image i with arguments a, ending in one of
\* outs.  An exception that leaves the call is caught by the caller, who
\* carries on, or by nobody, which ends the process.
Do(op, i, a, outs) ==
    /\ ~aborted
    /\ calls < MaxCalls
    /\ \E x \in outs :
         /\ img' = x.img
         /\ heap' = x.heap
         /\ aborted' \in (IF x.ex THEN BOOLEAN ELSE {x.ab})
         /\ last' = [op |-> op, i |-> i, a |-> a, img |-> img, heap |-> heap,
                     held |-> held, ev |-> x.ev, fl |-> x.fl, thrown |-> x.ex]
         /\ held' = [k \in Images |-> Held(op, i, x, k)]
    /\ calls' = calls + 1
    /\ cuda' = cuda

Alive(i) == img[i].st = "alive"

\* The calls are those of a caller that keeps the documented preconditions:
\* Clear, the transfers and SetFrom are called on allocated images, SetFrom
\* with a source of as many pixels.  Allocate, ChangeDims, Free and the
\* destructor are called in any state.

Construct1 ==
    \E gpu \in BOOLEAN :
        /\ img[Subject].st = "none"
        /\ Do("Image1", Subject, NoArgs, Image1(M, Subject, gpu))

Construct2 ==
    \E i \in Images, d \in Dims, gpu \in BOOLEAN :
        /\ img[i].st = "none"
        /\ img[Subject].st = "none"
        /\ Do("Image2", i, [NoArgs EXCEPT !.d = d], Image2(M, i, d, gpu))

CallAllocate ==
    \E d \in Dims :
        /\ Alive(Subject)
        /\ Do("Allocate", Subject, [NoArgs EXCEPT !.d = d], Allocate(M, Subject, d))

CallClear ==
    \E v \in Byte :
        /\ Alive(Subject)
        /\ img[Subject].isAllocated
        /\ Do("Clear", Subject, [NoArgs EXCEPT !.v = v], Clear(M, Subject, v))

CallChangeDims ==
    \E d \in Dims :
        /\ Alive(Subject)
        /\ Do("ChangeDims", Subject, [NoArgs EXCEPT !.d = d], ChangeDims(M, Subject, d))

CallUpdateDeviceFromHost ==
    /\ Alive(Subject)
    /\ img[Subject].isAllocated
    /\ Do("UpdateDeviceFromHost", Subject, NoArgs, UpdateDeviceFromHost(M, Subject))

CallUpdateHostFromDevice ==
    /\ Alive(Subject)
    /\ img[Subject].isAllocated
    /\ Do("UpdateHostFromDevice", Subject, NoArgs, UpdateHostFromDevice(M, Subject))

CallSetFrom ==
    \E j \in Images \ {Subject}, ch \in BOOLEAN, cd \in BOOLEAN :
        /\ Alive(Subject)
        /\ Alive(j)
        /\ img[Subject].isAllocated
        /\ img[j].isAllocated
        /\ img[Subject].dataSize = img[j].dataSize
        /\ Do("SetFrom", Subject,
              [NoArgs EXCEPT !.j = j, !.copyHost = ch, !.copyDevice = cd],
              SetFrom(M, Subject, j, ch, cd))

CallFree ==
    /\ Alive(Subject)
    /\ Do("Free", Subject, NoArgs, Free(M, Subject))

Destruct ==
    /\ Alive(Subject)
    /\ Do("~Image", Subject, NoArgs, Destroy(M, Subject))

\* The caller stores byte v at offset k through the host pointer GetData(false)
\* of an allocated image.
WriteData ==
    \E i \in Images, v \in Byte :
        LET p == GetData(M, i, FALSE)
        IN  /\ Alive(i)
            /\ i # Subject => img[Subject].st = "none"
            /\ img[i].isAllocated
            /\ Live(heap, p)
            /\ \E k \in 1..Len(heap[p].data) :
                 Do("GetData", i, [NoArgs EXCEPT !.v = v],
                    {[M EXCEPT !.heap[p].data[k] = v]})

Init ==
    /\ cuda \in BOOLEAN
    /\ img = [i \in Images |-> NoImage]
    /\ heap = [b \in BlockIds |-> NoMem]
    /\ aborted = FALSE
    /\ held = [i \in Images |-> <<>>]
    /\ last = [op |-> "none", i |-> 0, a |-> NoArgs, img |-> img, heap |-> heap,
               held |-> held, ev |-> <<>>, fl |-> <<>>, thrown |-> FALSE]
    /\ calls = 0

Next ==
    \/ Construct1
    \/ Construct2
    \/ CallAllocate
    \/ CallClear
    \/ CallChangeDims
    \/ CallUpdateDeviceFromHost
    \/ CallUpdateHostFromDevice
    \/ CallSetFrom
    \/ CallFree
    \/ Destruct
    \/ WriteData

Spec == Init /\ [][Next]_vars

\* ------------------------------------------------------------ the claims

\* The Subject before and after the last call, and its blocks' bytes.
Pre == last.img[Subject]
Now == img[Subject]
Area(d) == d[1] * d[2]
Events == {last.ev[k] : k \in 1..Len(last.ev)}
Frees == {e \in Events : e.e \in {"delete[]", "cudaFreeHost", "cudaFree"}}

Allocs == {e \in Events : e.e \in {"new[]", "cudaMallocHost", "cudaMalloc"}}

\* An allocation of the last call failed.
AllocFailed == \E e \in Allocs : ~e.ok

\* An image built with allocateGPU in a build without CUDA: Allocate gives it
\* no block at all.
NoStorage(r) == r.allocateGPU /\ ~cuda

\* C1: Allocate on an image that is already allocated changes nothing,
\* whatever extent it is given: every member of the image and every block
\* of memory is as before, no memory primitive is called, isAllocated stays
\* true and dataSize is still the product of the extent first asked for.
C1_AllocateAgainIsNoOp ==
    (last.op = "Allocate" /\ Pre.isAllocated) =>
        /\ ~aborted
        /\ img = last.img
        /\ heap = last.heap
        /\ last.ev = <<>>
        /\ Now.isAllocated
        /\ Now.dataSize = Area(Pre.noDims)

\* C1's case: a second Allocate with another extent on an image that owns a
\* live host block.
C1_Witness ==
    /\ last.op = "Allocate"
    /\ Pre.isAllocated
    /\ last.a.d # Pre.noDims
    /\ Area(last.a.d) # Area(Pre.noDims)
    /\ Live(heap, Now.data_host)

\* C3: no block is released more than once and no release is given anything
\* but a live block; Free and the destructor leave the image unallocated;
\* on an unallocated image they call no memory primitive and change no
\* block; on an allocated image they release each of its blocks once.
C3_NoDoubleFree ==
    /\ \A b \in BlockIds : heap[b].frees <= 1
    /\ \A e \in Frees : e.ok
    /\ (last.op \in {"Free", "~Image"}) =>
          /\ ~aborted
          /\ ~Now.isAllocated
          /\ ~Pre.isAllocated => (last.ev = <<>> /\ heap = last.heap)
          /\ (Pre.isAllocated /\ ~NoStorage(Pre)) =>
                /\ heap[Pre.data_host].frees = 1
                /\ Pre.allocateGPU => heap[Pre.data_device].frees = 1

\* C3's case: Free or the destructor on an image whose blocks an earlier
\* Free has released.
C3_Witness ==
    /\ last.op \in {"Free", "~Image"}
    /\ ~Pre.isAllocated
    /\ Pre.data_host \in BlockIds
    /\ heap[Pre.data_host].frees = 1
    /\ Pre.allocateGPU => (Pre.data_device \in BlockIds /\ heap[Pre.data_device].frees = 1)

\* C4: ChangeDims with the extent the allocated image already has changes
\* nothing: the members and every byte of every block are as before and no
\* memory primitive is called.
C4_ChangeDimsSameIsNoOp ==
    (last.op = "ChangeDims" /\ Pre.isAllocated /\ last.a.d = Pre.noDims) =>
        /\ ~aborted
        /\ img = last.img
        /\ heap = last.heap
        /\ last.ev = <<>>

\* C4's case: ChangeDims to the current extent of an image whose host block
\* holds bytes that were stored, not all equal.
C4_Witness ==
    /\ last.op = "ChangeDims"
    /\ Pre.isAllocated
    /\ last.a.d = Pre.noDims
    /\ Live(heap, Now.data_host)
    /\ \E k \in 1..Len(heap[Now.data_host].data) :
          /\ heap[Now.data_host].data[k] \in Byte
          /\ heap[Now.data_host].data[k] # heap[Now.data_host].data[1]

\* C6: when UpdateHostFromDevice returns, the host block holds the bytes it
\* held at the last UpdateDeviceFromHost, provided the device block has kept
\* its bytes since; whatever was stored in the host block in between is gone.
C6_RoundTrip ==
    (last.op = "UpdateHostFromDevice" /\ last.held[Subject] # <<>>) =>
        /\ ~aborted
        /\ Bytes(heap, Now.data_host) = last.held[Subject][1]

\* C6's case: the host block was overwritten after UpdateDeviceFromHost and
\* UpdateHostFromDevice has brought the bytes back.
C6_Witness ==
    /\ last.op = "UpdateHostFromDevice"
    /\ last.held[Subject] # <<>>
    /\ Len(last.held[Subject][1]) > 0
    /\ Bytes(last.heap, Pre.data_host) # last.held[Subject][1]
    /\ Bytes(heap, Now.data_host) = last.held[Subject][1]

\* Block p is a live block of domain dom holding n pixels.
Holds(h, p, dom, n) ==
    Live(h, p) /\ h[p].dom = dom /\ Len(h[p].data) = n * SizeofT

\* What C2 asks of an allocated image r.
Stored(r) ==
    /\ Holds(heap, r.data_host, "host", r.dataSize)
    /\ r.allocateGPU <=> Live(heap, r.data_device)
    /\ r.allocateGPU => Holds(heap, r.data_device, "device", r.dataSize)

\* C2: an allocated image owns a live host block of dataSize pixels, and a
\* live device block of dataSize pixels exactly if allocateGPU is set, in
\* builds with and without CUDA.  Stated of the images of at least one
\* pixel, where a missing block is memory the caller cannot use.
C2_AllocatedHasBlocks ==
    \A i \in Images :
        (Alive(i) /\ img[i].isAllocated /\ img[i].dataSize > 0) => Stored(img[i])

\* C2 outside the failing configuration: it holds of every image but those
\* built with allocateGPU where the build has no CUDA.
C2_UnlessNoStorage ==
    \A i \in Images :
        (Alive(i) /\ img[i].isAllocated /\ ~NoStorage(img[i])) => Stored(img[i])

\* What C5 asks of the image after ChangeDims(d).
Resized(d) ==
    /\ Now.isAllocated
    /\ Now.noDims = d
    /\ Now.dataSize = Area(d)
    /\ Holds(heap, Now.data_host, "host", Area(d))
    /\ Now.allocateGPU => Holds(heap, Now.data_device, "device", Area(d))
    /\ (d # Pre.noDims) =>
          /\ last.heap[Now.data_host].state = "unused"
          /\ Now.allocateGPU => last.heap[Now.data_device].state = "unused"

\* C5: when ChangeDims(d) returns the image is allocated with extent d,
\* dataSize is the product of d, its blocks are live and hold that many
\* pixels, and they are blocks allocated by this call when d is not the
\* extent the image had.  Stated of the extents of at least one pixel and
\* of the calls whose allocations succeed.
C5_ChangeDimsResizes ==
    (last.op = "ChangeDims" /\ ~aborted /\ ~AllocFailed /\ Area(last.a.d) > 0)
        => Resized(last.a.d)

\* C5 outside the failing configuration of C2.
C5_UnlessNoStorage ==
    (last.op = "ChangeDims" /\ ~aborted /\ ~AllocFailed /\ ~NoStorage(Pre))
        => Resized(last.a.d)

\* What C7 asks of SetFrom(source, true, false): the host bytes are the
\* source's, and nothing else in memory or in either object has changed.
HostCopied(j) ==
    /\ ~aborted
    /\ img = last.img
    /\ Live(heap, Now.data_host)
    /\ Live(heap, img[j].data_host)
    /\ heap = [last.heap EXCEPT ![Now.data_host].data = last.heap[img[j].data_host].data]

\* C7: SetFrom(source, true, false) on allocated images of equal dataSize
\* makes the host block equal to the source's and leaves the device block
\* and the source as they were.  Stated of the images of at least one pixel.
C7_SetFromCopiesHost ==
    (last.op = "SetFrom" /\ last.a.copyHost /\ ~last.a.copyDevice /\ Pre.dataSize > 0)
        => HostCopied(last.a.j)

\* C7 outside the failing configuration of C2.
C7_UnlessNoStorage ==
    (/\ last.op = "SetFrom" /\ last.a.copyHost /\ ~last.a.copyDevice
     /\ ~NoStorage(Pre) /\ ~NoStorage(last.img[last.a.j]))
        => HostCopied(last.a.j)

\* C8: SetFrom calls cudaMemcpy only if copyDevice is set and the image has
\* allocateGPU set, and only on live blocks.  Stated of the images of at least
\* one pixel.
C8_SetFromDeviceCopyGuarded ==
    (last.op = "SetFrom" /\ Pre.dataSize > 0) =>
        \A e \in Events :
            (e.e = "cudaMemcpy") => (last.a.copyDevice /\ Pre.allocateGPU /\ e.ok)

\* All n bytes of block p are zero.
Zeroed(p, n) ==
    /\ Live(heap, p)
    /\ Len(heap[p].data) = n * SizeofT
    /\ \A k \in 1..Len(heap[p].data) : heap[p].data[k] = 0

\* What C9 asks of the image the constructor Image(d, allocateGPU) built.
ZeroFilled(r, d) ==
    /\ ~aborted
    /\ r.isAllocated
    /\ r.dataSize = Area(d)
    /\ Zeroed(r.data_host, Area(d))
    /\ r.allocateGPU => Zeroed(r.data_device, Area(d))

\* C9: after Image(d, allocateGPU) the image is allocated, dataSize is the
\* product of d and every byte of the host block, and of the device block
\* if allocateGPU is set, is zero.  Stated of the extents of at least one
\* pixel and of the constructions whose allocations succeed.
C9_SizedConstructorZeroFills ==
    (last.op = "Image2" /\ ~AllocFailed /\ Area(last.a.d) > 0)
        => ZeroFilled(img[last.i], last.a.d)

\* C9 outside the failing configuration of C2.
C9_UnlessNoStorage ==
    (last.op = "Image2" /\ ~AllocFailed /\ ~NoStorage(img[last.i]))
        => ZeroFilled(img[last.i], last.a.d)

\* C10: dataSize is the product of noDims in every state of every image; the
\* image Image(allocateGPU) builds is unallocated, 0x0, with dataSize 0.
C10_DataSizeIsProduct ==
    /\ \A i \in Images : Alive(i) => img[i].dataSize = Area(img[i].noDims)
    /\ (last.op = "Image1") =>
          (~Now.isAllocated /\ Now.noDims = <<0, 0>> /\ Now.dataSize = 0)

\* C10 once Allocate has run: dataSize is the product of noDims in every
\* image that is allocated.
C10_OnceAllocated ==
    \A i \in Images :
        (Alive(i) /\ img[i].isAllocated) => img[i].dataSize = Area(img[i].noDims)

\* Every byte of the live block p is v.
Filled(p, v) ==
    /\ Live(heap, p)
    /\ \A k \in 1..Len(heap[p].data) : heap[p].data[k] = v

\* What C11 asks of Clear(v): the host block, and the device block of an
\* image with allocateGPU, hold v in every byte; no other block and no member
\* has changed.
Cleared(v) ==
    /\ ~aborted
    /\ img = last.img
    /\ Filled(Now.data_host, v)
    /\ Now.allocateGPU => Filled(Now.data_device, v)
    /\ \A b \in BlockIds :
          (b # Now.data_host /\ ~(Now.allocateGPU /\ b = Now.data_device))
             => heap[b] = last.heap[b]

\* C11: Clear(v) on an allocated image sets every byte of the host block to
\* v and, if allocateGPU is set, every byte of the device block; nothing else
\* is written.  Stated of the images of at least one pixel.
C11_ClearFillsBlocks ==
    (last.op = "Clear" /\ Pre.dataSize > 0) => Cleared(last.a.v)

\* C11 outside the failing configuration of C2.
C11_UnlessNoStorage ==
    (last.op = "Clear" /\ ~NoStorage(Pre)) => Cleared(last.a.v)

\* What C12 asks of a transfer on an image with allocateGPU: block to holds
\* the bytes block from held, and nothing else has changed.
Transferred(to, from) ==
    /\ ~aborted
    /\ img = last.img
    /\ Live(heap, to)
    /\ Live(heap, from)
    /\ heap = [last.heap EXCEPT ![to].data = last.heap[from].data]

\* What C12 asks of the transfer last called.
TransferDone ==
    IF Pre.allocateGPU
    THEN IF last.op = "UpdateDeviceFromHost"
         THEN Transferred(Now.data_device, Now.data_host)
         ELSE Transferred(Now.data_host, Now.data_device)
    ELSE ~aborted /\ img = last.img /\ heap = last.heap /\ last.ev = <<>>

Transfers == {"UpdateDeviceFromHost", "UpdateHostFromDevice"}

\* C12: UpdateDeviceFromHost on an allocated image with allocateGPU makes the
\* device block equal to the host block and leaves the host block as it was;
\* UpdateHostFromDevice does the same the other way round; without
\* allocateGPU neither changes anything.  Stated of the images of at least
\* one pixel.
C12_TransfersOneWay ==
    (last.op \in Transfers /\ Pre.dataSize > 0) => TransferDone

\* C12 outside the failing configuration of C2.
C12_UnlessNoStorage ==
    (last.op \in Transfers /\ ~NoStorage(Pre)) => TransferDone

OthersBlocks ==
    UNION {{img[j].data_host, img[j].data_device} : j \in Images \ {Subject}}

\* The blocks allocated so far for the image under study.
OwnBlocks == {b \in BlockIds \ OthersBlocks : heap[b].state # "unused"}

\* C14: once the destructor has run, every block ever allocated for the
\* image has been released exactly once and none is live; and while the
\* process runs, an image with isAllocated false owns no live block.
C14_NoLeak ==
    /\ img[Subject].st = "dead" =>
          \A b \in OwnBlocks : heap[b].state = "freed" /\ heap[b].frees = 1
    /\ (~aborted /\ img[Subject].st # "none" /\ ~Now.isAllocated) =>
          \A b \in OwnBlocks : heap[b].state = "freed"

\* C14's case: the destructor has run on an image that was resized, so that
\* a first pair of blocks was released by ChangeDims and a second pair by
\* the destructor.
C14_Witness ==
    /\ img[Subject].st = "dead"
    /\ last.op = "~Image"
    /\ \E e \in Frees : e.e = "cudaFree"
    /\ \E e \in Frees : e.e = "cudaFreeHost"
    /\ \E b \in OwnBlocks : \A e \in Frees : e.dst # b

\* The allocation primitive whose blocks release primitive e takes.
AllocatorOf(e) ==
    IF e = "delete[]" THEN "new[]"
    ELSE IF e = "cudaFreeHost" THEN "cudaMallocHost"
    ELSE "cudaMalloc"

\* C15: allocateGPU keeps the value the constructor gave it: no call changes
\* it in any image, and so every block is released by the primitive that
\* goes with the one that allocated it.
C15_AllocateGPUFixed ==
    /\ \A i \in Images :
          last.img[i].st # "none" => img[i].allocateGPU = last.img[i].allocateGPU
    /\ \A e \in Frees :
          e.dst \in BlockIds /\ heap[e.dst].by = AllocatorOf(e.e)

\* C15's case: an image built with allocateGPU has been through another
\* call and a resizing ChangeDims, which has released its pinned host block
\* and its device block with the CUDA primitives.
C15_Witness ==
    /\ last.op = "ChangeDims"
    /\ calls >= 3
    /\ Now.allocateGPU
    /\ \E e \in Frees : e.e = "cudaFreeHost" /\ heap[e.dst].by = "cudaMallocHost"
    /\ \E e \in Frees : e.e = "cudaFree" /\ heap[e.dst].by = "cudaMalloc"

\* The positions in the call's primitives of its releases and allocations.
FreeAt == {k \in 1..Len(last.ev) : last.ev[k] \in Frees}
AllocAt == {k \in 1..Len(last.ev) : last.ev[k] \in Allocs}

\* The blocks the image owned when the call began.
OldBlocks ==
    {b \in {Pre.data_host, Pre.data_device} : Live(last.heap, b)}

\* isAllocated after the call, as its assignments leave it.
FlagAfter ==
    IF last.fl = <<>> THEN last.img[last.i].isAllocated
    ELSE last.fl[Len(last.fl)].to

\* C16: isAllocated is what the assignments made in Allocate and in Free
\* leave it: it becomes true only in the operations that run Allocate and
\* false only in those that run Free.  A ChangeDims that resizes an allocated
\* image sets it to false once every old block is released and before any
\* new block is allocated, and to true after the new blocks are allocated.
C16_FlagFollowsAllocateAndFree ==
    /\ last.op # "none" =>
          /\ img[last.i].isAllocated = FlagAfter
          /\ \A j \in Images \ {last.i} : img[j].isAllocated = last.img[j].isAllocated
    /\ \A f \in 1..Len(last.fl) :
          IF last.fl[f].to
          THEN last.op \in {"Allocate", "ChangeDims", "Image2"}
          ELSE last.op \in {"Free", "ChangeDims", "~Image"}
    /\ (last.op = "ChangeDims" /\ Pre.isAllocated /\ last.a.d # Pre.noDims) =>
          /\ last.fl # <<>>
          /\ ~last.fl[1].to
          /\ \A k \in FreeAt : k <= last.fl[1].at
          /\ \A k \in AllocAt : k > last.fl[1].at
          /\ \A b \in OldBlocks : \E k \in FreeAt : last.ev[k].dst = b /\ last.ev[k].ok
          /\ (~aborted /\ ~last.thrown) =>
                /\ Len(last.fl) = 2
                /\ last.fl[2].to
                /\ last.fl[2].at = Len(last.ev)
                /\ \A k \in AllocAt : last.ev[k].dst \notin OldBlocks

\* C16's case: ChangeDims has resized an allocated image that owned a host
\* and a device block, releasing both and allocating two new ones.
C16_Witness ==
    /\ last.op = "ChangeDims"
    /\ Pre.isAllocated
    /\ last.a.d # Pre.noDims
    /\ ~aborted
    /\ Now.isAllocated
    /\ \E b1 \in OldBlocks, b2 \in OldBlocks : b1 # b2
    /\ \E k1 \in AllocAt, k2 \in AllocAt : k1 # k2

ContentOps == {"Clear", "SetFrom", "UpdateDeviceFromHost", "UpdateHostFromDevice"}

\* Block b is the block it was before the call, whatever its bytes.
SameBlock(b) ==
    /\ heap[b].state = last.heap[b].state
    /\ heap[b].dom = last.heap[b].dom
    /\ heap[b].by = last.heap[b].by
    /\ heap[b].frees = last.heap[b].frees
    /\ Len(heap[b].data) = Len(last.heap[b].data)

\* C17: Clear, SetFrom and the two transfers change bytes only: noDims,
\* dataSize, isAllocated, allocateGPU and the pointers of every image are as
\* before the call, no block is allocated or released, and SetFrom leaves
\* the bytes of the source's blocks as they were.
C17_ContentOnly ==
    (last.op \in ContentOps) =>
        /\ img = last.img
        /\ last.fl = <<>>
        /\ Allocs = {} /\ Frees = {}
        /\ \A b \in BlockIds : SameBlock(b)
        /\ (last.op = "SetFrom") =>
              \A b \in {img[last.a.j].data_host, img[last.a.j].data_device} \cap BlockIds :
                  heap[b] = last.heap[b]

\* C17's case: SetFrom has copied into the host block bytes that were not
\* there, from a source whose extent is not the image's.
C17_Witness ==
    /\ last.op = "SetFrom"
    /\ ~aborted
    /\ heap # last.heap
    /\ img[last.a.j].noDims # Now.noDims
    /\ Live(heap, Now.data_host)
    /\ Live(heap, img[last.a.j].data_host)
    /\ heap[Now.data_host].data = heap[img[last.a.j].data_host].data

====
